---- MODULE Spec2Model ----
(***************************************************************************)
(* RTHK world-news scraper: the store merge engine (utils/database_utils), *)
(* the payload builder (utils/scraper_utils) and the two Streamlit         *)
(* handlers that read-modify-write the persisted collection                *)
(* (tabs/international_news, tabs/import_export).                          *)
(*                                                                         *)
(* Python values are modelled as follows: None / JSON null is the string   *)
(* NULL, a dict is a record, a list is a sequence, an insertion-ordered    *)
(* dict keyed by id is a sequence of records with pairwise distinct ids.   *)
(***************************************************************************)
EXTENDS Integers, Sequences, FiniteSets, TLC

\* ------------------------------------------------------------------ bounds
\* longest existing collection handed to merge_articles
MaxExisting == 3
\* longest candidate batch handed to merge_articles
MaxBatch == 2
\* longest listing fetch_list_links returns
MaxLinks == 2
\* largest number of fake articles one injection adds
MaxFake == 1
\* the injector is not run on a collection that would grow beyond this length
MaxStore == 2
\* most .ns2-title references on a listing page
MaxRaw == 3

\* ------------------------------------------------------- python primitives
\* Python None / JSON null
NULL == "null"

\* Python truthiness of an optional string: None and "" are falsy
Truthy(v) == v # NULL /\ v # ""

\* Python `v or ""`
OrEmpty(v) == IF Truthy(v) THEN v ELSE ""

\* the sequence s without its first n elements
Drop(s, n) == SubSeq(s, n + 1, Len(s))

\* all sequences over S of length at most n
SeqUpTo(S, n) == UNION {[1..k -> S] : k \in 0..n}

\* ------------------------------------------------------------ identifiers
\* scraper_utils.article_id: a deterministic function of the url alone
\* (the first 16 hex characters of its SHA-256 digest; the digest is
\* abstracted to an injective tagging of the url)
article_id(url) == "id:" \o url

\* ----------------------------------------------------- insertion-ordered dict
\* `key in d`
HasKey(d, key) == \E i \in DOMAIN d : d[i].id = key

\* d[key]
Lookup(d, key) == d[CHOOSE i \in DOMAIN d : d[i].id = key]

\* d[key] = rec : a new key is appended, an existing key keeps its position
\* and takes the new value
DictSet(d, rec) ==
    IF HasKey(d, rec.id)
    THEN [i \in DOMAIN d |-> IF d[i].id = rec.id THEN rec ELSE d[i]]
    ELSE Append(d, rec)

\* ------------------------------------------------------------ merge engine
\* mutant of index_articles: the articles are indexed last to first
index_articles_reversed(articles) ==
    LET RECURSIVE Fold(_, _)
        Fold(results, k) ==
            IF k = 0 THEN results
            ELSE Fold(IF Truthy(articles[k].id) THEN
                          IF \E i \in DOMAIN results : results[i].id = articles[k].id
                          THEN results ELSE Append(results, articles[k])
                      ELSE results, k - 1)
    IN Fold(<<>>, Len(articles))

\* database_utils.index_articles: the lookup by id; records without an id are
\* skipped, a later record with the same id replaces the earlier one
RECURSIVE IndexFrom(_, _)
\* database_utils.index_articles, lines 36-39: the loop over the articles
IndexFrom(results, articles) ==
    IF articles = <<>> THEN results
    ELSE LET item == Head(articles)
         IN IndexFrom(IF Truthy(item.id) THEN DictSet(results, item) ELSE results,
                      Tail(articles))

index_articles(articles) == IndexFrom(<<>>, articles)

\* mutant of Backfill: always-take-latest, a candidate's value replaces a
\* populated field
BackfillLatestWins(stored, item) ==
    [stored EXCEPT
        !.title = IF Truthy(item.title) THEN item.title ELSE @,
        !.body = IF Truthy(item.body) THEN item.body ELSE @,
        !.time_text = IF Truthy(item.time_text) THEN item.time_text ELSE @]

\* mutant of Backfill: title and body are backfilled, time_text is forgotten
BackfillSkipsTimeText(stored, item) ==
    [stored EXCEPT
        !.title = IF ~Truthy(stored.title) /\ Truthy(item.title)
                  THEN item.title ELSE @,
        !.body = IF ~Truthy(stored.body) /\ Truthy(item.body)
                 THEN item.body ELSE @]

\* mutant of Backfill: a scraped-again record is marked as not yet emailed
BackfillResetsEmailed(stored, item) ==
    [stored EXCEPT
        !.title = IF ~Truthy(stored.title) /\ Truthy(item.title)
                  THEN item.title ELSE @,
        !.body = IF ~Truthy(stored.body) /\ Truthy(item.body)
                 THEN item.body ELSE @,
        !.time_text = IF ~Truthy(stored.time_text) /\ Truthy(item.time_text)
                      THEN item.time_text ELSE @,
        !.emailed = FALSE]

\* mutant of Backfill: a time_text that stays missing is normalised to the
\* empty string on the stored record
BackfillNormalises(stored, item) ==
    [stored EXCEPT
        !.title = IF ~Truthy(stored.title) /\ Truthy(item.title)
                  THEN item.title ELSE @,
        !.body = IF ~Truthy(stored.body) /\ Truthy(item.body)
                 THEN item.body ELSE @,
        !.time_text = IF Truthy(stored.time_text) THEN @
                      ELSE OrEmpty(item.time_text)]

\* database_utils.merge_articles, lines 58-63: backfill title, body and
\* time_text of the stored record, each only where the stored value is falsy
\* and the candidate's is truthy
Backfill(stored, item) ==
    [stored EXCEPT
        !.title = IF ~Truthy(stored.title) /\ Truthy(item.title)
                  THEN item.title ELSE @,
        !.body = IF ~Truthy(stored.body) /\ Truthy(item.body)
                 THEN item.body ELSE @,
        !.time_text = IF ~Truthy(stored.time_text) /\ Truthy(item.time_text)
                      THEN item.time_text ELSE @]

\* mutant of NewRecord: the provenance tag is hard-coded
NewRecordFixedTag(item, now_iso, scraped_by) ==
    [id |-> item.id,
     title |-> OrEmpty(item.title),
     body |-> OrEmpty(item.body),
     url |-> OrEmpty(item.url),
     time_text |-> item.time_text,
     scraped_at |-> now_iso,
     scraped_by |-> "manual",
     emailed |-> FALSE]

\* database_utils.merge_articles, lines 66-75: the record built for a new id
NewRecord(item, now_iso, scraped_by) ==
    [id |-> item.id,
     title |-> OrEmpty(item.title),
     body |-> OrEmpty(item.body),
     url |-> OrEmpty(item.url),
     time_text |-> item.time_text,
     scraped_at |-> now_iso,
     scraped_by |-> scraped_by,
     emailed |-> FALSE]

\* mutant of MergeStep: the `continue` that ends the backfill branch is
\* missing, so a known id gets a new record as well
MergeStepNoContinue(st, item, now_iso, scraped_by) ==
    IF ~Truthy(item.id) THEN st
    ELSE [indexed |-> DictSet(st.indexed, NewRecord(item, now_iso, scraped_by)),
          created |-> Append(st.created, item.id)]

\* mutant of MergeStep: a new record is put at the front of `created`
MergeStepPrepends(st, item, now_iso, scraped_by) ==
    IF ~Truthy(item.id) THEN st
    ELSE IF HasKey(st.indexed, item.id)
    THEN [st EXCEPT !.indexed =
            DictSet(@, Backfill(Lookup(st.indexed, item.id), item))]
    ELSE [indexed |-> DictSet(st.indexed, NewRecord(item, now_iso, scraped_by)),
          created |-> <<item.id>> \o st.created]

\* mutant of MergeStep: the check of the candidate's id is missing, a
\* candidate without an id is stored like any other
MergeStepKeepsNoId(st, item, now_iso, scraped_by) ==
    IF HasKey(st.indexed, item.id)
    THEN [st EXCEPT !.indexed =
            DictSet(@, Backfill(Lookup(st.indexed, item.id), item))]
    ELSE [indexed |-> DictSet(st.indexed, NewRecord(item, now_iso, scraped_by)),
          created |-> Append(st.created, item.id)]

\* database_utils.merge_articles, lines 53-77: the loop body for one
\* candidate. st.indexed is the lookup, st.created the ids appended to
\* `created` (the list holds the very records of the lookup, so a later
\* backfill of a new record shows in `created` too)
MergeStep(st, item, now_iso, scraped_by) ==
    IF ~Truthy(item.id) THEN st
    ELSE IF HasKey(st.indexed, item.id)
    THEN [st EXCEPT !.indexed =
            DictSet(@, Backfill(Lookup(st.indexed, item.id), item))]
    ELSE [indexed |-> DictSet(st.indexed, NewRecord(item, now_iso, scraped_by)),
          created |-> Append(st.created, item.id)]

\* database_utils.merge_articles, line 52: `for item in new_items`
RECURSIVE MergeLoop(_, _, _, _)
MergeLoop(st, new_items, now_iso, scraped_by) ==
    IF new_items = <<>> THEN st
    ELSE MergeLoop(MergeStep(st, Head(new_items), now_iso, scraped_by),
                   Tail(new_items), now_iso, scraped_by)

\* the record of `existing` at position i is the one the lookup holds for its
\* id: it has an id and no later record of `existing` has the same id
IsIndexed(existing, i) ==
    /\ Truthy(existing[i].id)
    /\ \A j \in DOMAIN existing : j > i => existing[j].id # existing[i].id

\* database_utils.merge_articles: returns (list(indexed.values()), created).
\* existing_after is the caller's `existing` list once the call has
\* returned: the stored records are backfilled in place, so the records the
\* lookup holds show their backfilled fields there as well
merge_articles(existing, new_items, scraped_by, now_iso) ==
    LET st == MergeLoop([indexed |-> index_articles(existing), created |-> <<>>],
                        new_items, now_iso, scraped_by)
    IN [merged |-> st.indexed,
        created |-> [k \in DOMAIN st.created |-> Lookup(st.indexed, st.created[k])],
        existing_after |->
            [i \in DOMAIN existing |->
                IF IsIndexed(existing, i)
                THEN Lookup(st.indexed, existing[i].id)
                ELSE existing[i]]]

\* -------------------------------------------------------- persistence
\* the collection a missing or empty document stands for
\* (database_utils.py:24), also the literal clear_database saves (line 83)
EmptyDatabase == [updated_at |-> NULL, articles |-> <<>>]

\* database_utils.load_database over firebase_utils.read_json_from_storage:
\* the stored object is <<>> when the blob does not exist, <<doc>> otherwise
load_database(stored) ==
    IF stored = <<>> THEN EmptyDatabase ELSE stored[1]

\* database_utils.save_database: stamps updated_at on the payload (in place)
\* and uploads it; the value is the payload as stamped
save_database(payload, now_iso) == [payload EXCEPT !.updated_at = now_iso]

\* firebase_utils.upload_json_to_storage: the whole document is overwritten
upload_json_to_storage(payload) == <<payload>>

\* -------------------------------------------------------------- scraper
\* scraper_utils.build_payload, lines 118-126: the candidate built from a
\* reference and the parsed detail page
PayloadRecord(item, detail) ==
    [id |-> article_id(item.url),
     title |-> IF Truthy(detail.title) THEN detail.title ELSE item.title,
     body |-> OrEmpty(detail.body),
     url |-> item.url,
     time_text |-> item.time_text]

\* mutant of DedupeFrom: a later reference with a url already seen replaces
\* the one kept
DedupeFromLastWins(seen, results, items) ==
    LET RECURSIVE Loop(_, _)
        Loop(res, rest) ==
            IF rest = <<>> THEN res
            ELSE LET item == Head(rest)
                 IN Loop(IF \E i \in DOMAIN res : res[i].url = item.url
                         THEN [i \in DOMAIN res |->
                                 IF res[i].url = item.url THEN item ELSE res[i]]
                         ELSE Append(res, item),
                         Tail(rest))
    IN Loop(results, items)

\* scraper_utils.dedupe_by_url, lines 85-89: the loop over the references,
\* with the urls seen and the references kept so far
RECURSIVE DedupeFrom(_, _, _)
DedupeFrom(seen, results, items) ==
    IF items = <<>> THEN results
    ELSE LET item == Head(items)
         IN IF item.url \in seen
            THEN DedupeFrom(seen, results, Tail(items))
            ELSE DedupeFrom(seen \cup {item.url}, Append(results, item), Tail(items))

\* scraper_utils.dedupe_by_url
dedupe_by_url(items) == DedupeFrom({}, <<>>, items)

\* scraper_utils.parse_list, lines 52-77: the references in the order they
\* are appended, the top story first, then the list entries
RawResults(page) == page.top \o page.list

\* scraper_utils.parse_list
parse_list(page) == dedupe_by_url(RawResults(page))

\* the first n elements of s (python s[:n])
Take(s, n) == SubSeq(s, 1, IF n < Len(s) THEN n ELSE Len(s))

\* database_utils.inject_fake_articles, lines 99-112: the fake record for a
\* slug and a loop index
FakeRecord(slug, idx, now_iso, tag) ==
    LET url == "https://example.com/fake/" \o slug \o "-" \o ToString(idx)
    IN [id |-> article_id(url),
        title |-> "fake " \o slug \o "-" \o ToString(idx),
        body |-> "fake body",
        url |-> url,
        time_text |-> NULL,
        scraped_at |-> now_iso,
        scraped_by |-> tag,
        emailed |-> FALSE]

\* tabs/international_news.py:56: the positions of the records not emailed
UnsentOf(articles) == {i \in DOMAIN articles : ~articles[i].emailed}

\* mutant of MarkEmailed: only the first of the unsent records is flagged
MarkEmailedFirstOnly(articles, unsent) ==
    [i \in DOMAIN articles |->
        IF i \in unsent /\ \A j \in unsent : i <= j
        THEN [articles[i] EXCEPT !.emailed = TRUE] ELSE articles[i]]

\* tabs/international_news.py:100-101: `for item in unsent: item["emailed"] =
\* True`; the items are the very records of `articles`
MarkEmailed(articles, unsent) ==
    [i \in DOMAIN articles |->
        IF i \in unsent THEN [articles[i] EXCEPT !.emailed = TRUE] ELSE articles[i]]

\* ------------------------------------------------------------ sample inputs
\* the article pages the model knows
Urls == {"http://x/1", "http://x/2"}

\* provenance tags: "manual" is the update button's
\* (tabs/international_news.py:133), "manual_test" the injector's default
\* (database_utils.py:92)
Tags == {"manual", "manual_test"}

\* title, body, time_text, emailed and scraped_by of the stored records the
\* merge is tried on: every field occurs empty and populated, and both
\* notification states occur
StoredContents ==
    { <<"T1", "", "09:00", TRUE, "manual">>,
      <<"", "B1", NULL, FALSE, "manual_test">> }

\* ArticleRecord (spec section 3): the persisted unit
StoredRecords ==
    { [id |-> article_id(u), title |-> c[1], body |-> c[2], url |-> u,
       time_text |-> c[3], scraped_at |-> "t0", scraped_by |-> c[5],
       emailed |-> c[4]] : u \in Urls, c \in StoredContents }

\* title, body and time_text of the candidates the merge is tried on
CandidateContents ==
    { <<"T2", "B2", "10:30">>,
      <<"", "", NULL>>,
      <<"T3", "B3", "11:45">> }

\* candidate records as scraper_utils.build_payload builds them, and one
\* candidate without an id
Candidates ==
    { [id |-> article_id(u), title |-> c[1], body |-> c[2], url |-> u,
       time_text |-> c[3]] : u \in Urls, c \in CandidateContents }
    \cup { [id |-> NULL, title |-> "T9", body |-> "B9", url |-> "http://x/9",
            time_text |-> "12:00"] }

\* what the listing page shows for a url
LinkTimes == {"10:30"}

\* ArticleLink (scraper_utils.py:32-36) as parse_list returns them
Links == { [title |-> "L " \o u, url |-> u, time_text |-> t] :
             u \in Urls, t \in LinkTimes }

\* the listings fetch_list_links may return: parse_list ends in
\* dedupe_by_url, so no two references share a url
Listings ==
    { l \in SeqUpTo(Links, MaxLinks) :
        \A i, j \in DOMAIN l : i # j => l[i].url # l[j].url }

\* the references a listing page may show before deduplication: a url can be
\* linked under several titles, with or without a time
RawLinks == { [title |-> ti, url |-> u, time_text |-> t] :
                ti \in {"A", "B"}, u \in Urls, t \in {NULL, "10:30"} }

\* listing pages as the selectors of parse_list see them
Pages == { [top |-> t, list |-> l] :
             t \in SeqUpTo(RawLinks, 1), l \in SeqUpTo(RawLinks, MaxRaw) }

\* what parse_detail may return for a detail page: heading and container
\* missing, or both present
Details == { [title |-> NULL, body |-> NULL], [title |-> "T2", body |-> "B2"] }

\* the values _now_iso may return
Timestamps == {"t1"}

\* the values _random_slug may return
Slugs == {"k3x9qa", "zz01ab"}

\* the operators (browser sessions) of the app, and the one who works alone
Operators == {"op1", "op2"}
Solo == {"op1"}

\* ------------------------------------------------------------------- state
VARIABLES
    \* merge_articles under test: its arguments, the phase of the experiment
    \* ("off", "input", "merged", "remerged"), the result of the call and the
    \* result of merging the same batch into that result once more
    existing, new_items, scraped_by, mpc, result, again,
    \* parse_list / dedupe_by_url under test: the listing page as the
    \* selectors see it (top: the top story, absent or one reference; list:
    \* the .ns2-title references in document order), the phase of the
    \* experiment ("off", "input", "deduped", "parsed") and the list returned
    html, lpc, deduped,
    \* the remote object rthk/world/db.json: <<>> while the blob does not
    \* exist, <<document>> afterwards
    store,
    \* history: the operation that wrote the store last ("none" at first)
    lastWrite,
    \* per operator (browser session), the script run started by the last
    \* click, a record of
    \*   pc        where the run stands ("idle" once it has ended)
    \*   links     top_items still to be fetched by build_payload
    \*   payload   the payload build_payload has built so far
    \*   database  the handler's local `database` / `payload` dict
    \*   unsent    the handler's local `unsent` list, as positions in
    \*             database.articles
    \*   viewed    `database` of render_import_export
    \*             (tabs/import_export.py:17): <<>> if the run did not
    \*             render the tab, <<document>> if it did
    \*   viewedAfter, before, calls, outcome   history: the write that
    \*             `viewed` was loaded after, the store when the run
    \*             started, the calls the run made in order (a fetch_html
    \*             call is logged as the page it asked for, "LIST" for the
    \*             listing), and how the run ended ("running" until then)
    session

mergeVars == <<existing, new_items, scraped_by, mpc, result, again>>
listVars == <<html, lpc, deduped>>
testVars == <<mergeVars, listVars>>
appVars == <<store, lastWrite, session>>
vars == <<mergeVars, listVars, appVars>>

NoResult == [merged |-> <<>>, created |-> <<>>, existing_after |-> <<>>]

\* the locals of a script run that starts while the store is `stored`: a
\* rerun keeps nothing of the run before it
FreshRun(stored) ==
    [pc |-> "idle", links |-> <<>>, payload |-> <<>>,
     database |-> EmptyDatabase, unsent |-> {}, viewed |-> <<>>,
     viewedAfter |-> "none", before |-> stored, calls |-> <<>>,
     outcome |-> "running"]

\* parse_list is not under test
ListOff ==
    /\ html = [top |-> <<>>, list |-> <<>>]
    /\ lpc = "off"
    /\ deduped = <<>>

\* the app before the first click: no document in the bucket
InitApp ==
    /\ store = <<>>
    /\ lastWrite = "none"
    /\ session = [o \in Operators |-> [FreshRun(<<>>) EXCEPT !.outcome = "none"]]

\* ------------------------------------------------- merge_articles under test
InitMerge ==
    /\ existing \in SeqUpTo(StoredRecords, MaxExisting)
    /\ new_items \in SeqUpTo(Candidates, MaxBatch)
    /\ scraped_by \in Tags
    /\ mpc = "input"
    /\ result = NoResult
    /\ again = NoResult
    /\ ListOff
    /\ InitApp

\* merged, created = merge_articles(existing, new_items, scraped_by)
Merge ==
    /\ mpc = "input"
    /\ result' = merge_articles(existing, new_items, scraped_by, "t1")
    /\ mpc' = "merged"
    /\ UNCHANGED <<existing, new_items, scraped_by, again>>
    /\ UNCHANGED <<listVars, appVars>>

\* the same batch merged into the collection the first call returned
MergeAgain ==
    /\ mpc = "merged"
    /\ again' = merge_articles(result.merged, new_items, scraped_by, "t2")
    /\ mpc' = "remerged"
    /\ UNCHANGED <<existing, new_items, scraped_by, result>>
    /\ UNCHANGED <<listVars, appVars>>

NextMerge == Merge \/ MergeAgain

SpecMerge == InitMerge /\ [][NextMerge]_vars

\* --------------------------------------------------- parse_list under test
InitList ==
    /\ html \in Pages
    /\ lpc = "input"
    /\ deduped = <<>>
    /\ existing = <<>>
    /\ new_items = <<>>
    /\ scraped_by = "manual"
    /\ mpc = "off"
    /\ result = NoResult
    /\ again = NoResult
    /\ InitApp

\* results = dedupe_by_url(items), on the list entries of the page
DedupeByUrl ==
    /\ lpc = "input"
    /\ deduped' = dedupe_by_url(html.list)
    /\ lpc' = "deduped"
    /\ UNCHANGED <<html, mergeVars, appVars>>

\* links = parse_list(html)
ParseList ==
    /\ lpc = "input"
    /\ deduped' = parse_list(html)
    /\ lpc' = "parsed"
    /\ UNCHANGED <<html, mergeVars, appVars>>

NextList == DedupeByUrl \/ ParseList

SpecList == InitList /\ [][NextList]_vars

\* ------------------------------------------------------------- the app
\* tabs/international_news.py:122-125: the update button is clicked,
\* fetch_list_links succeeds and top_items = links[:max_items]
ManualFetchList(o) ==
    /\ session[o].pc = "idle"
    /\ \E l \in Listings : \E max_items \in 1..MaxLinks :
           session' = [session EXCEPT ![o] =
                          [FreshRun(store) EXCEPT
                              !.pc = "details",
                              !.links = Take(l, max_items),
                              !.calls = <<"LIST">>]]
    /\ UNCHANGED <<store, lastWrite, testVars>>

\* tabs/international_news.py:124 with scraper_utils.py:39-43: fetch_html of
\* the listing raises (network, timeout, non-2xx); the run ends
ManualFetchListFails(o) ==
    /\ session[o].pc = "idle"
    /\ session' = [session EXCEPT ![o] =
                      [FreshRun(store) EXCEPT
                          !.calls = <<"LIST">>,
                          !.outcome = "fetch_error"]]
    /\ UNCHANGED <<store, lastWrite, testVars>>

\* scraper_utils.build_payload, lines 115-126: one turn of the loop, the
\* detail page is fetched and parsed and the candidate appended
FetchDetail(o) ==
    /\ session[o].pc = "details"
    /\ session[o].links # <<>>
    /\ \E detail \in Details :
           session' = [session EXCEPT
                          ![o].payload =
                              Append(@, PayloadRecord(Head(session[o].links), detail)),
                          ![o].links = Tail(@),
                          ![o].calls = Append(@, Head(session[o].links).url)]
    /\ UNCHANGED <<store, lastWrite, testVars>>

\* mutant of FetchDetailFails: skip-and-continue, the failed reference is
\* left out and the loop goes on
FetchDetailFailsSkips(o) ==
    /\ session[o].pc = "details"
    /\ session[o].links # <<>>
    /\ session' = [session EXCEPT
                      ![o].links = Tail(@),
                      ![o].calls = Append(@, Head(session[o].links).url),
                      ![o].outcome = "fetch_error"]
    /\ UNCHANGED <<store, lastWrite, testVars>>

\* scraper_utils.build_payload, line 116: fetch_html of a detail page raises;
\* the exception leaves build_payload and the handler, the payload built so
\* far and the references not yet fetched are dropped with them
FetchDetailFails(o) ==
    /\ session[o].pc = "details"
    /\ session[o].links # <<>>
    /\ session' = [session EXCEPT
                      ![o].pc = "idle",
                      ![o].links = <<>>,
                      ![o].payload = <<>>,
                      ![o].calls = Append(@, Head(session[o].links).url),
                      ![o].outcome = "fetch_error"]
    /\ UNCHANGED <<store, lastWrite, testVars>>

\* tabs/international_news.py:129: build_payload has returned,
\* database = load_database()
ManualLoad(o) ==
    /\ session[o].pc = "details"
    /\ session[o].links = <<>>
    /\ session' = [session EXCEPT
                      ![o].pc = "merge",
                      ![o].database = load_database(store),
                      ![o].calls = Append(@, "load_database")]
    /\ UNCHANGED <<store, lastWrite, testVars>>

\* mutant of ManualMergeSave: the document is read again right before the
\* merge, so the records another writer saved since the load are merged into
ManualMergeSaveReloads(o) ==
    /\ session[o].pc = "merge"
    /\ \E now_merge \in Timestamps : \E now_save \in Timestamps :
        LET r == merge_articles(load_database(store).articles, session[o].payload,
                                "manual", now_merge)
            saved == save_database(
                         [load_database(store) EXCEPT !.articles = r.merged],
                         now_save)
        IN /\ session' = [session EXCEPT
                             ![o].pc = "idle",
                             ![o].database = saved,
                             ![o].calls = @ \o <<"merge_articles", "save_database">>,
                             ![o].outcome = "updated"]
           /\ store' = upload_json_to_storage(saved)
    /\ lastWrite' = "merge"
    /\ UNCHANGED testVars

\* tabs/international_news.py:130-136: merge_articles, then
\* database["articles"] = merged and save_database(database)
ManualMergeSave(o) ==
    /\ session[o].pc = "merge"
    /\ \E now_merge \in Timestamps : \E now_save \in Timestamps :
        LET r == merge_articles(session[o].database.articles, session[o].payload,
                                "manual", now_merge)
            saved == save_database(
                         [session[o].database EXCEPT !.articles = r.merged],
                         now_save)
        IN /\ session' = [session EXCEPT
                             ![o].pc = "idle",
                             ![o].database = saved,
                             ![o].calls = @ \o <<"merge_articles", "save_database">>,
                             ![o].outcome = "updated"]
           /\ store' = upload_json_to_storage(saved)
    /\ lastWrite' = "merge"
    /\ UNCHANGED testVars

\* tabs/international_news.py:54-71: the send button is clicked (it is
\* enabled only while the panel lists unsent records); the rerun loads the
\* database and selects the unsent records
EmailLoad(o) ==
    /\ session[o].pc = "idle"
    /\ UnsentOf(load_database(store).articles) # {}
    /\ session' = [session EXCEPT ![o] =
                      [FreshRun(store) EXCEPT
                          !.pc = "send",
                          !.calls = <<"load_database">>,
                          !.database = load_database(store),
                          !.unsent = UnsentOf(load_database(store).articles)]]
    /\ UNCHANGED <<store, lastWrite, testVars>>

\* tabs/international_news.py:72-75: no Gmail client configuration; the
\* handler reports it and returns
EmailNoConfig(o) ==
    /\ session[o].pc = "send"
    /\ session' = [session EXCEPT ![o].pc = "idle", ![o].outcome = "no_config"]
    /\ UNCHANGED <<store, lastWrite, testVars>>

\* mutant of EmailSendFails: the flags are flipped and saved before the
\* failure is reported
EmailSendFailsAfterMark(o) ==
    /\ session[o].pc = "send"
    /\ \E now_iso \in Timestamps :
        LET saved == save_database(
                         [session[o].database EXCEPT
                             !.articles = MarkEmailed(@, session[o].unsent)],
                         now_iso)
        IN /\ session' = [session EXCEPT
                             ![o].pc = "idle",
                             ![o].database = saved,
                             ![o].calls = @ \o <<"save_database", "send_message">>,
                             ![o].outcome = "send_error"]
           /\ store' = upload_json_to_storage(saved)
    /\ lastWrite' = "mark"
    /\ UNCHANGED testVars

\* tabs/international_news.py:87-98: get_credentials or send_message raises;
\* the except branch reports it and returns
EmailSendFails(o) ==
    /\ session[o].pc = "send"
    /\ session' = [session EXCEPT
                      ![o].pc = "idle",
                      ![o].calls = Append(@, "send_message"),
                      ![o].outcome = "send_error"]
    /\ UNCHANGED <<store, lastWrite, testVars>>

\* tabs/international_news.py:87-95: send_message returns
EmailSend(o) ==
    /\ session[o].pc = "send"
    /\ session' = [session EXCEPT
                      ![o].pc = "mark",
                      ![o].calls = Append(@, "send_message")]
    /\ UNCHANGED <<store, lastWrite, testVars>>

\* tabs/international_news.py:100-103: the unsent records are flagged and the
\* database is saved
EmailMarkSave(o) ==
    /\ session[o].pc = "mark"
    /\ \E now_iso \in Timestamps :
        LET saved == save_database(
                         [session[o].database EXCEPT
                             !.articles = MarkEmailed(@, session[o].unsent)],
                         now_iso)
        IN /\ session' = [session EXCEPT
                             ![o].pc = "idle",
                             ![o].database = saved,
                             ![o].calls = Append(@, "save_database"),
                             ![o].outcome = "sent"]
           /\ store' = upload_json_to_storage(saved)
    /\ lastWrite' = "mark"
    /\ UNCHANGED testVars

\* database_utils.clear_database (tabs/import_export.py:25-27)
ClearDatabase(o) ==
    /\ session[o].pc = "idle"
    /\ \E now_iso \in Timestamps :
           store' = upload_json_to_storage(save_database(EmptyDatabase, now_iso))
    /\ lastWrite' = "clear"
    /\ session' = [session EXCEPT ![o] =
                      [FreshRun(store) EXCEPT
                          !.calls = <<"save_database">>,
                          !.outcome = "cleared"]]
    /\ UNCHANGED testVars

\* tabs/import_export.py:17: the tab is rendered, database = load_database()
ViewDatabase(o) ==
    /\ session[o].pc = "idle"
    /\ session' = [session EXCEPT ![o] =
                      [FreshRun(store) EXCEPT
                          !.calls = <<"load_database">>,
                          !.viewed = <<load_database(store)>>,
                          !.viewedAfter = lastWrite,
                          !.outcome = "viewed"]]
    /\ UNCHANGED <<store, lastWrite, testVars>>

\* database_utils.inject_fake_articles, lines 94-95: payload = load_database()
InjectLoad(o) ==
    /\ session[o].pc = "idle"
    /\ Len(load_database(store).articles) + MaxFake <= MaxStore
    /\ session' = [session EXCEPT ![o] =
                      [FreshRun(store) EXCEPT
                          !.pc = "inject",
                          !.calls = <<"load_database">>,
                          !.database = load_database(store)]]
    /\ UNCHANGED <<store, lastWrite, testVars>>

\* database_utils.inject_fake_articles, lines 96-116: `count` fake records,
\* each with a slug of its own, are appended and the payload is saved
InjectSave(o) ==
    /\ session[o].pc = "inject"
    /\ \E count \in 1..MaxFake : \E slugs \in [0..(count - 1) -> Slugs] :
       \E now_iso \in Timestamps : \E now_save \in Timestamps :
        LET fakes == [k \in 1..count |->
                        FakeRecord(slugs[k - 1], k - 1, now_iso, "manual_test")]
            saved == save_database(
                         [session[o].database EXCEPT !.articles = @ \o fakes],
                         now_save)
        IN /\ session' = [session EXCEPT
                             ![o].pc = "idle",
                             ![o].database = saved,
                             ![o].calls = Append(@, "save_database"),
                             ![o].outcome = "injected"]
           /\ store' = upload_json_to_storage(saved)
    /\ lastWrite' = "inject"
    /\ UNCHANGED testVars

\* the app used by one operator at a time (spec section 5)
Init ==
    /\ InitApp
    /\ existing = <<>>
    /\ new_items = <<>>
    /\ scraped_by = "manual"
    /\ mpc = "off"
    /\ result = NoResult
    /\ again = NoResult
    /\ ListOff

Next ==
    \E o \in Solo :
        \/ ManualFetchList(o)
        \/ ManualFetchListFails(o)
        \/ FetchDetail(o)
        \/ FetchDetailFails(o)
        \/ ManualLoad(o)
        \/ ManualMergeSave(o)
        \/ EmailLoad(o)
        \/ EmailNoConfig(o)
        \/ EmailSendFails(o)
        \/ EmailSend(o)
        \/ EmailMarkSave(o)
        \/ ClearDatabase(o)
        \/ ViewDatabase(o)
        \/ InjectLoad(o)
        \/ InjectSave(o)

Spec == Init /\ [][Next]_vars

\* the payloads build_payload may return for a listing
PayloadsOf(listing) ==
    { p \in SeqUpTo({PayloadRecord(l, d) : l \in Links, d \in Details}, MaxLinks) :
        /\ Len(p) = Len(listing)
        /\ \A k \in DOMAIN p : p[k].url = listing[k].url }

\* the remote object as the first manual update of an operator working alone
\* leaves it (tabs/international_news.py:128-136 run on the absent document)
AfterFirstUpdate ==
    { upload_json_to_storage(
          save_database(
              [EmptyDatabase EXCEPT
                  !.articles = merge_articles(<<>>, p, "manual", now_iso).merged],
              now_iso)) :
        p \in UNION {PayloadsOf(l) : l \in Listings}, now_iso \in Timestamps }

\* two operators open the app on the same document, absent or as a first
\* manual update left it
InitRace ==
    /\ store \in {<<>>} \cup AfterFirstUpdate
    /\ lastWrite = IF store = <<>> THEN "none" ELSE "merge"
    /\ session = [o \in Operators |-> [FreshRun(store) EXCEPT !.outcome = "none"]]
    /\ existing = <<>>
    /\ new_items = <<>>
    /\ scraped_by = "manual"
    /\ mpc = "off"
    /\ result = NoResult
    /\ again = NoResult
    /\ ListOff

\* the operator has not clicked yet
FirstClick(o) == session[o].outcome = "none"

\* the app used by two operators at once: each operator clicks one button,
\* the handler runs in the session of its own operator, and the steps of
\* the two runs interleave at the calls that read or write the remote
\* document
NextRace ==
    \E o \in Operators :
        \/ FirstClick(o) /\ ManualFetchList(o)
        \/ FetchDetail(o)
        \/ ManualLoad(o)
        \/ ManualMergeSave(o)
        \/ FirstClick(o) /\ EmailLoad(o)
        \/ EmailSend(o)
        \/ EmailMarkSave(o)
        \/ FirstClick(o) /\ ClearDatabase(o)
        \/ FirstClick(o) /\ InjectLoad(o)
        \/ InjectSave(o)

SpecRace == InitRace /\ [][NextRace]_vars

\* ------------------------------------------------------ claims on the merge
\* the fields merge_articles may backfill, and those it must leave alone
BackfillFields == {"title", "body", "time_text"}
FrameFields == {"id", "url", "emailed", "scraped_at", "scraped_by"}

\* the ids of a sequence of records, in order
IdsOf(records) == [k \in DOMAIN records |-> records[k].id]

\* the ids of `existing`
ExistingIds == {existing[i].id : i \in DOMAIN existing}

\* the distinct non-empty ids of a sequence of ids, in order of first occurrence
RECURSIVE FirstOccurrences(_, _)
FirstOccurrences(seen, ids) ==
    IF ids = <<>> THEN <<>>
    ELSE IF ~Truthy(Head(ids)) \/ Head(ids) \in seen
         THEN FirstOccurrences(seen, Tail(ids))
         ELSE <<Head(ids)>> \o FirstOccurrences(seen \cup {Head(ids)}, Tail(ids))

\* the stored record at position i and the candidate at position k have the
\* same id
SameId(i, k) == Truthy(new_items[k].id) /\ existing[i].id = new_items[k].id

\* C1: merging the batch again into the collection the first merge returned
\* gives the same collection, and creates nothing
C1_DedupIdempotent ==
    mpc = "remerged" =>
        /\ again.merged = result.merged
        /\ again.created = <<>>

\* the first merge both created a record and backfilled a stored one, and the
\* batch was merged a second time
C1_Witness ==
    /\ mpc = "remerged"
    /\ result.created # <<>>
    /\ result.existing_after # existing

\* C2: a populated title, body or time_text of a stored record is the same
\* after the merge, in the record itself and in the merged collection,
\* whatever the candidates with its id carry
C2_NeverClobbers ==
    mpc # "input" =>
        \A i \in DOMAIN existing : \A f \in BackfillFields :
            Truthy(existing[i][f]) =>
                /\ result.existing_after[i][f] = existing[i][f]
                /\ IsIndexed(existing, i) =>
                       Lookup(result.merged, existing[i].id)[f] = existing[i][f]

\* a stored record with a populated title met a candidate with the same id
\* and a different populated title
C2_Witness ==
    /\ mpc = "merged"
    /\ \E i \in DOMAIN existing : \E k \in DOMAIN new_items :
           /\ SameId(i, k)
           /\ Truthy(existing[i].title)
           /\ Truthy(new_items[k].title)
           /\ new_items[k].title # existing[i].title

\* C3 as stated: whenever a stored record's field is empty and a candidate
\* with the same id carries a value, the merged record's field is that
\* candidate's value, and the record is not in `created`
C3_AsStated ==
    mpc # "input" =>
        \A i \in DOMAIN existing : \A k \in DOMAIN new_items :
            \A f \in BackfillFields :
                (SameId(i, k) /\ ~Truthy(existing[i][f]) /\ Truthy(new_items[k][f]))
                => /\ Lookup(result.merged, existing[i].id)[f] = new_items[k][f]
                   /\ \A c \in DOMAIN result.created :
                          result.created[c].id # existing[i].id

\* the candidate at position k is the first of the batch with its id that
\* carries a value for field f
FirstCarrier(k, f) ==
    /\ Truthy(new_items[k].id)
    /\ Truthy(new_items[k][f])
    /\ \A j \in DOMAIN new_items :
           (j < k /\ new_items[j].id = new_items[k].id) => ~Truthy(new_items[j][f])

\* C3 (amended): when the field of the stored record the lookup holds for an
\* id (the last of the existing collection with that id) is empty, the merged
\* record's field is the value of the first candidate with that id that
\* carries one, and the record is not in `created`
C3_FillsGaps ==
    mpc # "input" =>
        \A i \in DOMAIN existing : \A k \in DOMAIN new_items :
            \A f \in BackfillFields :
                (/\ SameId(i, k)
                 /\ IsIndexed(existing, i)
                 /\ ~Truthy(existing[i][f])
                 /\ FirstCarrier(k, f))
                => /\ Lookup(result.merged, existing[i].id)[f] = new_items[k][f]
                   /\ result.existing_after[i][f] = new_items[k][f]
                   /\ \A c \in DOMAIN result.created :
                          result.created[c].id # existing[i].id

\* a stored record without time_text met a candidate with the same id that
\* carries one
C3_Witness ==
    /\ mpc = "merged"
    /\ \E i \in DOMAIN existing : \E k \in DOMAIN new_items :
           /\ SameId(i, k)
           /\ IsIndexed(existing, i)
           /\ ~Truthy(existing[i].time_text)
           /\ FirstCarrier(k, "time_text")

\* C4: id, url, emailed, scraped_at and scraped_by of every pre-existing
\* record are the same after the merge, in the record itself and in the
\* merged collection
C4_FrameFieldsKept ==
    mpc # "input" =>
        \A i \in DOMAIN existing : \A f \in FrameFields :
            /\ result.existing_after[i][f] = existing[i][f]
            /\ IsIndexed(existing, i) =>
                   Lookup(result.merged, existing[i].id)[f] = existing[i][f]

\* a record already marked emailed was scraped again, by a merge with another
\* provenance tag, and one of its empty fields was backfilled
C4_Witness ==
    /\ mpc = "merged"
    /\ \E i \in DOMAIN existing : \E k \in DOMAIN new_items :
           /\ SameId(i, k)
           /\ existing[i].emailed
           /\ existing[i].scraped_by # scraped_by
           /\ result.existing_after[i] # existing[i]

\* s can be obtained from t by leaving elements out
RECURSIVE IsSubsequence(_, _)
IsSubsequence(s, t) ==
    IF s = <<>> THEN TRUE
    ELSE IF t = <<>> THEN FALSE
    ELSE IF Head(s) = Head(t) THEN IsSubsequence(Tail(s), Tail(t))
    ELSE IsSubsequence(s, Tail(t))

\* C5 as stated: the pre-existing records of the merged collection (all but
\* the created ones) are there in the relative order they have in the
\* existing collection
C5_AsStated ==
    mpc # "input" =>
        IsSubsequence(
            SubSeq(result.merged, 1, Len(result.merged) - Len(result.created)),
            result.existing_after)

\* C5 (amended): the merged collection begins with the pre-existing records
\* in the order in which their ids first occur in the existing collection;
\* this is their original order whenever the existing ids are pairwise
\* distinct
C5_OrderOfFirstOccurrence ==
    mpc # "input" =>
        LET pre == FirstOccurrences({}, IdsOf(existing))
        IN /\ Len(result.merged) >= Len(pre)
           /\ IdsOf(SubSeq(result.merged, 1, Len(pre))) = pre
           /\ (Len(pre) = Len(existing)) =>
                  SubSeq(result.merged, 1, Len(pre)) = result.existing_after

\* two stored records with distinct ids, in an order that is not the order
\* of their urls, went through a merge
C5_Witness ==
    /\ mpc = "merged"
    /\ Len(existing) = 2
    /\ existing[1].id = article_id("http://x/2")
    /\ existing[2].id = article_id("http://x/1")
    /\ new_items # <<>>

\* C6: `created` holds one record for each distinct candidate id that is not
\* in the existing collection, in order of first occurrence in the batch, and
\* these records are the tail of the merged collection, behind the
\* pre-existing ones
C6_CreatedList ==
    mpc # "input" =>
        LET fresh == FirstOccurrences(ExistingIds, IdsOf(new_items))
            n == Len(result.merged) - Len(result.created)
        IN /\ IdsOf(result.created) = fresh
           /\ n >= 0
           /\ Drop(result.merged, n) = result.created
           /\ \A p \in 1..n : result.merged[p].id \in ExistingIds

\* two records were created, in batch order and not in the order of their
\* ids
C6_Witness ==
    /\ mpc = "merged"
    /\ Len(new_items) = 2
    /\ IdsOf(result.created) = <<article_id("http://x/2"), article_id("http://x/1")>>

\* the first candidate of the batch with the given id
FirstWithId(id) ==
    new_items[CHOOSE k \in DOMAIN new_items :
                /\ new_items[k].id = id
                /\ \A j \in DOMAIN new_items : j < k => new_items[j].id # id]

\* every created record is not emailed, carries the caller's tag, and has
\* id and url of the candidate that introduced its id
CreatedRecordsFresh ==
    \A c \in DOMAIN result.created :
        LET rec == result.created[c]
        IN /\ rec.emailed = FALSE
           /\ rec.scraped_by = scraped_by
           /\ rec.id = FirstWithId(rec.id).id
           /\ rec.url = FirstWithId(rec.id).url

\* C7 as stated: created records are fresh, and any one-candidate batch
\* merged into the empty collection gives exactly one record, which is the
\* created list
C7_AsStated ==
    mpc # "input" =>
        /\ CreatedRecordsFresh
        /\ (existing = <<>> /\ Len(new_items) = 1) =>
               /\ Len(result.merged) = 1
               /\ result.created = result.merged

\* C7 (amended): created records are fresh, and a one-candidate batch whose
\* candidate has an id, merged into the empty collection, gives exactly one
\* record, which is the created list
C7_CreatedFresh ==
    mpc # "input" =>
        /\ CreatedRecordsFresh
        /\ (existing = <<>> /\ Len(new_items) = 1 /\ Truthy(new_items[1].id)) =>
               /\ Len(result.merged) = 1
               /\ result.created = result.merged

\* the scenario of the spec: one candidate with an id merged into the empty
\* collection under the tag "manual"
C7_Witness ==
    /\ mpc = "merged"
    /\ existing = <<>>
    /\ Len(new_items) = 1
    /\ Truthy(new_items[1].id)
    /\ scraped_by = "manual"
    /\ Len(result.created) = 1

\* the candidate has an id
HasId(item) == Truthy(item.id)

\* the batch with the absent ids (None) turned into empty ones ("")
WithEmptyIds(items) ==
    [k \in DOMAIN items |->
        IF items[k].id = NULL THEN [items[k] EXCEPT !.id = ""] ELSE items[k]]

\* C14: the merge of a batch returns the collection and the created list
\* (and leaves the stored records) that the merge of the batch without its
\* id-less candidates gives, whether the id is absent or empty
C14_NoIdDropped ==
    mpc # "input" =>
        /\ result = merge_articles(existing, SelectSeq(new_items, HasId),
                                   scraped_by, "t1")
        /\ result = merge_articles(existing, WithEmptyIds(new_items),
                                   scraped_by, "t1")

\* a batch of a candidate without an id and a candidate that created a
\* record was merged into a collection with a record to backfill
C14_Witness ==
    /\ mpc = "merged"
    /\ Len(new_items) = 2
    /\ ~HasId(new_items[1])
    /\ result.created # <<>>
    /\ \E i \in DOMAIN existing : ~Truthy(existing[i].title)

\* C17 as stated: the call leaves the existing collection and its records
\* as they were passed in
C17_AsStated ==
    mpc # "input" => result.existing_after = existing

\* C17 (amended): the call leaves the existing list with its length and
\* order; a record of it is changed only by the backfill, in place: its
\* frame fields stay, a title, body or time_text changes only from empty to
\* the value of a candidate with the record's id, a record whose id is not
\* in the batch is untouched, and the records the lookup holds are the
\* records of the returned collection, backfilled values included
C17_BackfillsInPlace ==
    mpc # "input" =>
        /\ Len(result.existing_after) = Len(existing)
        /\ \A i \in DOMAIN existing :
               LET before == existing[i]
                   after == result.existing_after[i]
               IN /\ \A f \in FrameFields : after[f] = before[f]
                  /\ \A f \in BackfillFields :
                         after[f] # before[f] =>
                             /\ ~Truthy(before[f])
                             /\ \E k \in DOMAIN new_items :
                                    SameId(i, k) /\ new_items[k][f] = after[f]
                  /\ (\A k \in DOMAIN new_items : ~SameId(i, k)) => after = before
                  /\ IsIndexed(existing, i) =>
                         after = Lookup(result.merged, before.id)

\* a merge backfilled one stored record and left another, whose id is not in
\* the batch, as it was
C17_Witness ==
    /\ mpc = "merged"
    /\ \E i, j \in DOMAIN existing :
           /\ result.existing_after[i] # existing[i]
           /\ existing[j].id # existing[i].id
           /\ \A k \in DOMAIN new_items : ~SameId(j, k)

\* -------------------------------------------------------- claims on the app
\* the calls of a run that are page fetches
IsFetch(call) == call = "LIST" \/ call \in Urls

\* C8: a load that follows clear_database returns
\* {updated_at: null, articles: []}
C8_ClearThenLoad ==
    \A o \in Operators :
        session[o].viewedAfter = "clear" =>
            session[o].viewed = <<[updated_at |-> NULL, articles |-> <<>>]>>

\* C9: after a send attempt that failed in get_credentials or send_message
\* the run has ended without a save, the records it loaded have their flags
\* as loaded, and the persisted collection is the one the run found
C9_SendFailureChangesNothing ==
    \A o \in Solo :
        session[o].outcome = "send_error" =>
            /\ session[o].pc = "idle"
            /\ \A k \in DOMAIN session[o].calls :
                   session[o].calls[k] # "save_database"
            /\ session[o].database = load_database(session[o].before)
            /\ store = session[o].before

\* a send attempt over a stored collection with unsent records has failed
C9_Witness ==
    \E o \in Solo :
        /\ session[o].outcome = "send_error"
        /\ session[o].unsent # {}
        /\ store # <<>>
        /\ \E i \in DOMAIN store[1].articles : ~store[1].articles[i].emailed

\* C10: after a failed fetch of the listing or of a detail page the run has
\* ended at that fetch: it fetched no page twice, holds no reference left to
\* fetch and no half-built payload, has called neither load_database nor
\* merge_articles nor save_database, and the persisted collection is the one
\* the run found
C10_FetchFailureAborts ==
    \A o \in Solo :
        session[o].outcome = "fetch_error" =>
            /\ session[o].pc = "idle"
            /\ session[o].links = <<>>
            /\ session[o].payload = <<>>
            /\ \A k \in DOMAIN session[o].calls : IsFetch(session[o].calls[k])
            /\ \A j, k \in DOMAIN session[o].calls :
                   j # k => session[o].calls[j] # session[o].calls[k]
            /\ store = session[o].before

\* the second detail fetch of a batch failed after the first had succeeded,
\* over a collection that holds records
C10_Witness ==
    \E o \in Solo :
        /\ session[o].outcome = "fetch_error"
        /\ Len(session[o].calls) = 3
        /\ store # <<>>
        /\ store[1].articles # <<>>

\* -------------------------------------------------- claims on the listing
\* the references dedupe_by_url was given
DedupeInput == IF lpc = "parsed" THEN RawResults(html) ELSE html.list

\* the first reference of items with the given url
FirstWithUrl(items, url) ==
    items[CHOOSE k \in DOMAIN items :
            /\ items[k].url = url
            /\ \A j \in DOMAIN items : j < k => items[j].url # url]

\* C11: the list dedupe_by_url (and parse_list) returns has no two entries
\* with the same url, represents every url of the input by its first
\* occurrence there (the top story before the list entries), and keeps the
\* entries in their input order
C11_DedupeByUrl ==
    lpc \in {"deduped", "parsed"} =>
        /\ \A i, j \in DOMAIN deduped : i # j => deduped[i].url # deduped[j].url
        /\ {deduped[i].url : i \in DOMAIN deduped}
               = {DedupeInput[k].url : k \in DOMAIN DedupeInput}
        /\ \A i \in DOMAIN deduped :
               deduped[i] = FirstWithUrl(DedupeInput, deduped[i].url)
        /\ IsSubsequence(deduped, DedupeInput)

\* a page whose top story is linked again in the list under another title,
\* behind an entry for another url, was parsed
C11_Witness ==
    /\ lpc = "parsed"
    /\ Len(html.top) = 1
    /\ Len(html.list) >= 2
    /\ html.list[1].url # html.top[1].url
    /\ html.list[2].url = html.top[1].url
    /\ html.list[2].title # html.top[1].title
    /\ Len(deduped) = 2

\* ------------------------------------------------ claims on the store
\* the persisted collection
StoredArticles == load_database(store).articles

\* C12: the persisted collection never holds two records with the same id
C12_UniqueIds ==
    \A i, j \in DOMAIN StoredArticles :
        i # j => StoredArticles[i].id # StoredArticles[j].id

\* the number of records of a collection that carry the given id
CountOf(articles, id) == Cardinality({i \in DOMAIN articles : articles[i].id = id})

\* C13: no step deletes part of the persisted collection: a write either
\* leaves no record at all (clear_database) or leaves, for every id, at
\* least as many records as there were
C13_NoPartialDeletion ==
    [][ \/ StoredArticles' = <<>>
        \/ \A i \in DOMAIN StoredArticles :
               CountOf(StoredArticles', StoredArticles[i].id)
                   >= CountOf(StoredArticles, StoredArticles[i].id) ]_vars

\* the collection a run found when it started
LoadedBy(o) == load_database(session[o].before).articles

\* C15: when a send has succeeded the run has flagged every record it had
\* selected as unsent and saved right away: its calls are load, send, save
\* and nothing else, the persisted document is the one it saved, the
\* persisted collection is the loaded one with nothing but these flags
\* changed, and none of its records is unsent
C15_MarkAsSent ==
    \A o \in Solo :
        session[o].outcome = "sent" =>
            /\ session[o].pc = "idle"
            /\ session[o].calls = <<"load_database", "send_message", "save_database">>
            /\ session[o].unsent = UnsentOf(LoadedBy(o))
            /\ store = <<session[o].database>>
            /\ Len(StoredArticles) = Len(LoadedBy(o))
            /\ \A i \in DOMAIN StoredArticles :
                   /\ StoredArticles[i].emailed
                   /\ StoredArticles[i] = [LoadedBy(o)[i] EXCEPT !.emailed = TRUE]

\* a send succeeded over a collection that held a record already emailed
\* and two records not yet emailed
C15_Witness ==
    \E o \in Solo :
        /\ session[o].outcome = "sent"
        /\ Cardinality(session[o].unsent) = 2
        /\ \E i \in DOMAIN LoadedBy(o) : LoadedBy(o)[i].emailed

\* ------------------------------------------- claims on concurrent operators
\* operator o's run ends with its save in this step
Saves(o) == session[o].pc \in {"merge", "mark", "inject"} /\ session'[o].pc = "idle"

\* record r of the document a run saves comes from the collection the run
\* had loaded (with the flag the run gives it) or was made by the run itself
FromOwnCycle(o, r, pos) ==
    LET snap == session[o].database.articles
    IN \/ \E i \in DOMAIN snap :
              /\ snap[i].id = r.id
              /\ r.emailed = (snap[i].emailed \/ session[o].pc = "mark")
       \/ /\ session[o].pc = "merge"
          /\ \E k \in DOMAIN session[o].payload : session[o].payload[k].id = r.id
          /\ ~r.emailed
       \/ /\ session[o].pc = "inject"
          /\ pos > Len(snap)
          /\ ~r.emailed

\* C16: the last writer's whole document wins: the document a run saves is
\* built from the collection that run loaded and from nothing else, whatever
\* the other operator has saved since; every record of the persisted
\* collection after the save comes from the writer's own load or was made by
\* the writer
C16_LastWriterWins ==
    [][ \A o \in Operators :
            Saves(o) =>
                /\ store' = <<session'[o].database>>
                /\ \A j \in DOMAIN StoredArticles' :
                       FromOwnCycle(o, StoredArticles'[j], j) ]_vars

\* operator o loaded the collection, the other operator then saved record r,
\* and o has saved last: r is not in the persisted collection
LostRecord(o, p) ==
    /\ session[o].outcome \in {"updated", "sent", "injected"}
    /\ session[p].outcome \in {"updated", "injected"}
    /\ store = <<session[o].database>>
    /\ \E i \in DOMAIN session[p].database.articles :
           \A j \in DOMAIN StoredArticles :
               StoredArticles[j].id # session[p].database.articles[i].id

\* operator p sent and flagged a record, and o, who had loaded it unsent,
\* has saved last: the record is persisted as not emailed
LostFlag(o, p) ==
    /\ session[o].outcome \in {"updated", "injected"}
    /\ session[p].outcome = "sent"
    /\ store = <<session[o].database>>
    /\ \E i \in DOMAIN session[p].database.articles :
           \E j \in DOMAIN StoredArticles :
               /\ StoredArticles[j].id = session[p].database.articles[i].id
               /\ ~StoredArticles[j].emailed

\* both lost updates: a record one operator saved is gone after the other's
\* save
C16_Witness == \E o, p \in Operators : o # p /\ LostRecord(o, p)

\* an emailed flag one operator saved is gone after the other's save
C16_WitnessFlag == \E o, p \in Operators : o # p /\ LostFlag(o, p)

\* C18: a successful send carries no url that an earlier successful send
\* carried: none of the records the run selected as unsent, and has now
\* sent, shares its url with a record the run loaded as already emailed
\* (with one operator a record is flagged emailed by a successful send only)
C18_AtMostOnce ==
    \A o \in Solo :
        session[o].outcome = "sent" =>
            \A i \in session[o].unsent : \A j \in DOMAIN LoadedBy(o) :
                LoadedBy(o)[j].emailed => LoadedBy(o)[j].url # LoadedBy(o)[i].url

====
